---- MODULE Spec2Model ----
(***************************************************************************)
(* A model of the Hetzner DNS client of src/hetzner.go.                    *)
(*                                                                         *)
(* Every Go string that travels in a JSON document (ids, types, names,     *)
(* values) is a sequence of one-character strings, so that                 *)
(* strings.EqualFold is computed character by character.  A JSON document  *)
(* is a tagged tree (JStr, JNum, JNull, JArr, JObj); a response body is a  *)
(* JSON document, a text that is not JSON, or a body whose read fails.     *)
(* An error value is a record whose fields are the format string and the   *)
(* arguments that fmt.Errorf was given.                                    *)
(***************************************************************************)
EXTENDS Integers, Sequences, FiniteSets, TLC

VARIABLES
    h,          \* the client: [APIKey, APIBaseUrl]
    transport,  \* "server": the remote API keeps records; "mock": any response
    records,    \* the remote API's records, in its list order
    nextId,     \* the number the remote API gives to the next created record
    pc,         \* pc[p]: "idle", or "write" between the two steps of CreateOrUpdateRecord
    call,       \* call[p]: the call p is in, or the last one it finished
    found,      \* found[p]: the local `records` of CreateOrUpdateRecord
    ret,        \* ret[p]: what the last finished call of p returned
    rt,         \* rt[p]: the HTTP round trips of call[p], in order
    after,      \* after[p]: the remote records when call[p] returned
    prev,       \* prev[p]: call, ret, rt and after of the call before call[p]
    ncalls      \* calls started so far

vars == <<h, transport, records, nextId, pc, call, found, ret, rt, after, prev, ncalls>>

(***************************************************************************)
(* Bounds                                                                  *)
(***************************************************************************)
MaxCalls == 2       \* calls made against the stateful remote API
MaxItems == 2       \* longest list a mock response carries

Procs == {1, 2}

ZoneIDs == {<<"z">>}
RecordIDs == {<<"1">>, <<"2">>}
Types == {<<"A">>, <<"M", "X">>}
Names == {<<"w">>, <<"W">>, <<"m">>}
Values == {<<"x">>, <<"y">>}

(***************************************************************************)
(* net/http status codes the code compares with                            *)
(***************************************************************************)
StatusOK == 200
StatusCreated == 201
Statuses == {200, 201, 500}

(***************************************************************************)
(* JSON documents and response bodies                                      *)
(***************************************************************************)
JStr(s) == [t |-> "string", s |-> s]
JNum(n) == [t |-> "number", n |-> n]
JNull == [t |-> "null"]
JArr(a) == [t |-> "array", a |-> a]
JObj(o) == [t |-> "object", o |-> o]
Text(raw) == [t |-> "text", raw |-> raw]
Unreadable == [t |-> "unreadable"]
NoBody == [t |-> "none"]

(***************************************************************************)
(* Errors                                                                  *)
(***************************************************************************)
Nil == [format |-> "nil"]
Errorf(format, err) == [format |-> format, err |-> err]
ErrTransport == [format |-> "transport failure"]
ErrBodyRead == [format |-> "body read failure"]
ErrJsonSyntax == [format |-> "json: syntax error"]
ErrJsonType == [format |-> "json: cannot unmarshal"]
ErrUrlParse == [format |-> "net/url: parse error"]

(***************************************************************************)
(* strings.EqualFold, on the letters the names are written with            *)
(***************************************************************************)
foldRune(c) == CASE c = "W" -> "w" [] c = "M" -> "m" [] c = "Z" -> "z" [] OTHER -> c

EqualFold(s, t) ==
    /\ Len(s) = Len(t)
    /\ \A i \in 1..Len(s) : foldRune(s[i]) = foldRune(t[i])

(***************************************************************************)
(* The client's helpers                                                    *)
(***************************************************************************)
DefaultBaseUrl == "https://dns.hetzner.com/api/v1"
MalformedBaseUrls == {"http://bad host"}
BaseUrls == {"", "http://mock"} \cup MalformedBaseUrls

apiBaseURL == IF h.APIBaseUrl # "" THEN h.APIBaseUrl ELSE DefaultBaseUrl

\* http.NewRequest parses the URL; the ids put into a path are URL-safe here,
\* so that the parse fails exactly when the configured base URL is malformed.
NewRequest(method, url, header, body) ==
    IF url[1] \in MalformedBaseUrls
    THEN [err |-> ErrUrlParse]
    ELSE [err |-> Nil,
          req |-> [method |-> method, url |-> url, header |-> header, body |-> body]]

createApiErrorMessage(resp) ==
    IF resp.Body = Unreadable
    THEN ErrBodyRead
    ELSE [format |-> "API request failed with status %d: %s",
          status |-> resp.StatusCode, body |-> resp.Body]

\* the error DeleteRecord and ExportZoneFile build themselves
statusOnlyError(resp) ==
    [format |-> "API request failed with status %d", status |-> resp.StatusCode]

\* json.Marshal of a RecordUpdateRequest: all five keys, none omitted
MarshalRecordUpdateRequest(r) ==
    JObj([id |-> JStr(r.ID), zone_id |-> JStr(r.ZoneID), type |-> JStr(r.Type),
          name |-> JStr(r.Name), value |-> JStr(r.Value)])

MarshalBulkRecordUpdateRequest(rs) ==
    JObj([records |-> JArr([i \in 1..Len(rs) |-> MarshalRecordUpdateRequest(rs[i])])])

(***************************************************************************)
(* encoding/json decoding into the response structs.  A decode result is   *)
(* [err, v]: an absent key and a null leave the field at its zero value, a *)
(* value of another JSON type is an UnmarshalTypeError, unknown keys are   *)
(* skipped.                                                                *)
(***************************************************************************)
\* mutant: an absent key is a decode error
decodeString_Strict(o, key) ==
    IF key \notin DOMAIN o THEN [err |-> ErrJsonType, v |-> <<>>]
    ELSE IF o[key].t = "string" THEN [err |-> Nil, v |-> o[key].s]
    ELSE IF o[key].t = "null" THEN [err |-> Nil, v |-> <<>>]
    ELSE [err |-> ErrJsonType, v |-> <<>>]

decodeString(o, key) ==
    IF key \notin DOMAIN o THEN [err |-> Nil, v |-> <<>>]
    ELSE IF o[key].t = "string" THEN [err |-> Nil, v |-> o[key].s]
    ELSE IF o[key].t = "null" THEN [err |-> Nil, v |-> <<>>]
    ELSE [err |-> ErrJsonType, v |-> <<>>]

decodeInt(o, key) ==
    IF key \notin DOMAIN o THEN [err |-> Nil, v |-> 0]
    ELSE IF o[key].t = "number" THEN [err |-> Nil, v |-> o[key].n]
    ELSE IF o[key].t = "null" THEN [err |-> Nil, v |-> 0]
    ELSE [err |-> ErrJsonType, v |-> 0]

ZeroZone == [ID |-> <<>>, Name |-> <<>>]

decodeZone(j) ==
    IF j.t = "null" THEN [err |-> Nil, v |-> ZeroZone]
    ELSE IF j.t # "object" THEN [err |-> ErrJsonType, v |-> ZeroZone]
    ELSE LET id == decodeString(j.o, "id")
             name == decodeString(j.o, "name")
         IN [err |-> IF id.err # Nil THEN id.err ELSE name.err,
             v |-> [ID |-> id.v, Name |-> name.v]]

ZeroRecordResponse ==
    [ID |-> <<>>, Type |-> <<>>, Name |-> <<>>, Value |-> <<>>, ZoneID |-> <<>>,
     TTL |-> 0, Created |-> <<>>, Modified |-> <<>>]

decodeRecordResponse(j) ==
    IF j.t = "null" THEN [err |-> Nil, v |-> ZeroRecordResponse]
    ELSE IF j.t # "object" THEN [err |-> ErrJsonType, v |-> ZeroRecordResponse]
    ELSE LET id == decodeString(j.o, "id")
             type == decodeString(j.o, "type")
             name == decodeString(j.o, "name")
             value == decodeString(j.o, "value")
             zone == decodeString(j.o, "zone_id")
             ttl == decodeInt(j.o, "ttl")
             created == decodeString(j.o, "created")
             modified == decodeString(j.o, "modified")
             errs == SelectSeq(<<id.err, type.err, name.err, value.err, zone.err,
                                 ttl.err, created.err, modified.err>>,
                               LAMBDA e : e # Nil)
         IN [err |-> IF errs = <<>> THEN Nil ELSE errs[1],
             v |-> [ID |-> id.v, Type |-> type.v, Name |-> name.v, Value |-> value.v,
                    ZoneID |-> zone.v, TTL |-> ttl.v, Created |-> created.v,
                    Modified |-> modified.v]]

\* time.Time.UnmarshalJSON: a string in RFC 3339 format
ValidTimes == {<<"t">>}
ZeroTime == <<"0">>
ErrTimeParse == [format |-> "parsing time: cannot parse"]

decodeTime(o, key) ==
    IF key \notin DOMAIN o THEN [err |-> Nil, v |-> ZeroTime]
    ELSE IF o[key].t = "null" THEN [err |-> Nil, v |-> ZeroTime]
    ELSE IF o[key].t # "string" THEN [err |-> ErrJsonType, v |-> ZeroTime]
    ELSE IF o[key].s \notin ValidTimes THEN [err |-> ErrTimeParse, v |-> ZeroTime]
    ELSE [err |-> Nil, v |-> o[key].s]

ZeroPrimaryServer ==
    [Port |-> 0, ID |-> <<>>, Created |-> ZeroTime, Modified |-> ZeroTime,
     ZoneID |-> <<>>, Address |-> <<>>]

decodePrimaryServer(j) ==
    IF j.t = "null" THEN [err |-> Nil, v |-> ZeroPrimaryServer]
    ELSE IF j.t # "object" THEN [err |-> ErrJsonType, v |-> ZeroPrimaryServer]
    ELSE LET port == decodeInt(j.o, "port")
             id == decodeString(j.o, "id")
             created == decodeTime(j.o, "created")
             modified == decodeTime(j.o, "modified")
             zone == decodeString(j.o, "zone_id")
             address == decodeString(j.o, "address")
             errs == SelectSeq(<<port.err, id.err, created.err, modified.err, zone.err,
                                 address.err>>,
                               LAMBDA e : e # Nil)
         IN [err |-> IF errs = <<>> THEN Nil ELSE errs[1],
             v |-> [Port |-> port.v, ID |-> id.v, Created |-> created.v,
                    Modified |-> modified.v, ZoneID |-> zone.v, Address |-> address.v]]

\* json.NewDecoder(resp.Body).Decode(&primaryServer) for a bare object
decodePrimaryServerResponse(body) ==
    IF body = Unreadable THEN [err |-> ErrBodyRead, v |-> ZeroPrimaryServer]
    ELSE IF body.t \in {"text", "none"} THEN [err |-> ErrJsonSyntax, v |-> ZeroPrimaryServer]
    ELSE decodePrimaryServer(body)

\* json.Marshal of a PrimaryServer: all six keys, the zero time included
MarshalPrimaryServer(s) ==
    JObj([port |-> JNum(s.Port), id |-> JStr(s.ID), created |-> JStr(s.Created),
          modified |-> JStr(s.Modified), zone_id |-> JStr(s.ZoneID),
          address |-> JStr(s.Address)])

\* the element type of the slice each list envelope declares
decodeItem(key, item) ==
    CASE key = "zones" -> decodeZone(item)
      [] key = "records" -> decodeRecordResponse(item)
      [] OTHER -> decodePrimaryServer(item)

\* the slice field of a list envelope
decodeSlice(o, key) ==
    IF key \notin DOMAIN o THEN [err |-> Nil, v |-> <<>>]
    ELSE IF o[key].t = "null" THEN [err |-> Nil, v |-> <<>>]
    ELSE IF o[key].t # "array" THEN [err |-> ErrJsonType, v |-> <<>>]
    ELSE LET items == [i \in 1..Len(o[key].a) |-> decodeItem(key, o[key].a[i])]
             errs == SelectSeq(items, LAMBDA d : d.err # Nil)
         IN [err |-> IF errs = <<>> THEN Nil ELSE errs[1].err,
             v |-> [i \in 1..Len(items) |-> items[i].v]]

\* json.NewDecoder(resp.Body).Decode(&envelope) for an envelope of one slice
decodeEnvelope(body, key) ==
    IF body = Unreadable THEN [err |-> ErrBodyRead, v |-> <<>>]
    ELSE IF body.t \in {"text", "none"} THEN [err |-> ErrJsonSyntax, v |-> <<>>]
    ELSE IF body.t = "null" THEN [err |-> Nil, v |-> <<>>]
    ELSE IF body.t # "object" THEN [err |-> ErrJsonType, v |-> <<>>]
    ELSE decodeSlice(body.o, key)

decodeZonesResponse(body) == decodeEnvelope(body, "zones")
decodeRecordsResponse(body) == decodeEnvelope(body, "records")
decodePrimaryServersResponse(body) ==
    decodeEnvelope(body, "primary_servers")

\* os.ReadFile of a zone file
ZoneFiles == {"zone.txt", "missing.txt"}
ErrNoFile == [format |-> "open: no such file or directory"]
ReadFile(zoneFile) ==
    IF zoneFile = "missing.txt" THEN [err |-> ErrNoFile]
    ELSE [err |-> Nil, data |-> Text("$ORIGIN example.com.")]

(***************************************************************************)
(* The HTTP transport behind client.Do.  A response is [err, StatusCode,   *)
(* Body]; Do(req) is the set of [resp, recs, nid]: the possible responses  *)
(* with the remote records and id counter they leave behind.               *)
(***************************************************************************)
Response(status, body) == [err |-> Nil, StatusCode |-> status, Body |-> body]
TransportFailure == [err |-> ErrTransport]

IdChars == <<"1", "2", "3", "4", "5", "6", "7", "8", "9">>

\* the remote API: a record is [id, type, name, value, zone_id]
remoteRecordJson(r) ==
    JObj([id |-> JStr(r.id), type |-> JStr(r.type), name |-> JStr(r.name),
          value |-> JStr(r.value), zone_id |-> JStr(r.zone_id), ttl |-> JNum(3600),
          created |-> JStr(<<"t">>), modified |-> JStr(<<"t">>)])

remoteList(zoneID) ==
    LET rs == SelectSeq(records, LAMBDA r : r.zone_id = zoneID)
    IN JObj([records |-> JArr([i \in 1..Len(rs) |-> remoteRecordJson(rs[i])])])

remoteRecord(id, body) ==
    [id |-> id, type |-> body.o.type.s, name |-> body.o.name.s,
     value |-> body.o.value.s, zone_id |-> body.o.zone_id.s]

remoteHas(id) == \E i \in 1..Len(records) : records[i].id = id

\* the remote API applies every request it accepts and answers it with the
\* endpoint's success status; it answers 404 to the others and applies nothing
RemoteDo(req) ==
    LET same(resp) == [resp |-> resp, recs |-> records, nid |-> nextId]
        path == req.url[2]
        accepted ==
            CASE req.method = "GET" /\ path = "/records?zone_id=" ->
                    {same(Response(200, remoteList(req.url[3])))}
              [] req.method = "POST" /\ path = "/records" ->
                    {[resp |-> Response(201, JObj([record |->
                                  remoteRecordJson(remoteRecord(<<IdChars[nextId]>>, req.body))])),
                      recs |-> Append(records, remoteRecord(<<IdChars[nextId]>>, req.body)),
                      nid |-> nextId + 1]}
              [] req.method = "PUT" /\ path = "/records/" /\ remoteHas(req.url[3]) ->
                    {[resp |-> Response(200, JObj([record |->
                                  remoteRecordJson(remoteRecord(req.url[3], req.body))])),
                      recs |-> [i \in 1..Len(records) |->
                                  IF records[i].id = req.url[3]
                                  THEN remoteRecord(req.url[3], req.body)
                                  ELSE records[i]],
                      nid |-> nextId]}
              [] req.method = "DELETE" /\ path = "/records/" /\ remoteHas(req.url[3]) ->
                    {[resp |-> Response(200, JObj(<<>>)),
                      recs |-> SelectSeq(records, LAMBDA r : r.id # req.url[3]),
                      nid |-> nextId]}
              [] OTHER -> {same(Response(404, Text("not found")))}
    IN accepted

(***************************************************************************)
(* A mock transport: any status with any body of the bounded sets below.   *)
(* The documents are the ones a list endpoint can send: keys absent, of    *)
(* another JSON type, or unknown to the client.                            *)
(***************************************************************************)
SeqsUpTo(S, n) == UNION {[1..k -> S] : k \in 0..n}

\* marks of a key left out of a document, and of a key holding a number
Absent == <<"-">>
Numeric == <<"#">>

Key(present, k, v) == IF present THEN k :> v ELSE <<>>

\* zones: the one with id 2 carries a key the client does not know
MockZoneItems ==
    {JObj(Key(id # Absent, "id", IF id = Absent THEN JNull ELSE JStr(id))
          @@ Key(name # Absent, "name",
                 IF name = Absent THEN JNull
                 ELSE IF name = Numeric THEN JNum(7) ELSE JStr(name))
          @@ Key(id = <<"2">>, "ttl", JNum(60))) :
        id \in {Absent} \cup RecordIDs,
        name \in {Absent, Numeric} \cup Names}

\* records: record 1 is an A record with a ttl; record 2 is an MX record with
\* no zone_id and an unknown key; a record without id has no type either
MockRecordItems ==
    {JObj(Key(id # Absent, "id", IF id = Absent THEN JNull ELSE JStr(id))
          @@ Key(id # Absent, "type", JStr(IF id = <<"1">> THEN <<"A">> ELSE <<"M", "X">>))
          @@ Key(TRUE, "name", JStr(name))
          @@ Key(TRUE, "value", JStr(<<"x">>))
          @@ Key(id # <<"2">>, "zone_id", JStr(<<"z">>))
          @@ Key(id = <<"1">>, "ttl", JNum(3600))
          @@ Key(id = <<"2">>, "locked", JNum(0))) :
        id \in {Absent} \cup RecordIDs, name \in Names}

\* primary servers: complete, without timestamps, with a timestamp that does
\* not parse, with a string for the port, and with an unknown key
MockPrimaryServerItems ==
    LET full == [id |-> JStr(<<"1">>), zone_id |-> JStr(<<"z">>),
                 address |-> JStr(<<"a">>), port |-> JNum(53),
                 created |-> JStr(<<"t">>), modified |-> JStr(<<"t">>)]
    IN {JObj(full),
        JObj([id |-> JStr(<<"1">>), address |-> JStr(<<"a">>), port |-> JNum(53)]),
        JObj([full EXCEPT !.created = JStr(<<"x">>)]),
        JObj([full EXCEPT !.port = JStr(<<"x">>)]),
        JObj(full @@ ("locked" :> JNum(0)))}

MockEnvelopes(key, items) ==
    {JObj(key :> JArr(a)) : a \in SeqsUpTo(items, MaxItems)}
        \cup {JObj((key :> JArr(<<>>)) @@ ("meta" :> JObj(<<>>))),
              JObj(<<>>), JNull, JArr(<<>>), JObj(key :> JStr(<<"x">>))}

MockDocs(req) ==
    CASE req.method = "GET" /\ req.url[2] = "/zones" /\ Len(req.url) = 2 ->
            MockEnvelopes("zones", MockZoneItems)
      [] req.method = "GET" /\ req.url[2] = "/records?zone_id=" ->
            MockEnvelopes("records", MockRecordItems)
      [] req.method = "GET" /\ req.url[2] = "/primary_servers" /\ Len(req.url) = 2 ->
            MockEnvelopes("primary_servers", MockPrimaryServerItems)
      [] req.method \in {"GET", "DELETE"} /\ req.url[2] = "/primary_servers/" ->
            MockPrimaryServerItems \cup {JNull, JArr(<<>>)}
      [] OTHER -> {JObj(<<>>)}

MockBodies(req, status) ==
    {Text("internal error"), Unreadable}
        \cup IF status = 200 THEN MockDocs(req) ELSE {}

MockDo(req) ==
    {[resp |-> r, recs |-> records, nid |-> nextId] :
        r \in {TransportFailure}
                \cup UNION {{Response(s, b) : b \in MockBodies(req, s)} : s \in Statuses}}

Do(req) == IF transport = "mock" THEN MockDo(req) ELSE RemoteDo(req)

(***************************************************************************)
(* The client's methods.  Each is the set of its possible outcomes         *)
(* [err, val, trips, recs, nid] in the current state: the values it        *)
(* returns, its HTTP round trips in order, and what the remote API holds   *)
(* when it returns.                                                        *)
(***************************************************************************)
Out(err, val, trips, recs, nid) ==
    [err |-> err, val |-> val, trips |-> trips, recs |-> recs, nid |-> nid]

NoTrip(err, val) == {Out(err, val, <<>>, records, nextId)}

Trip(req, resp) == [req |-> req, resp |-> resp]

AuthHeader == "Auth-API-Token" :> h.APIKey
JsonHeader == ("Content-Type" :> "application/json") @@ AuthHeader

FindAllZones ==
    LET nr == NewRequest("GET", <<apiBaseURL, "/zones">>, AuthHeader, NoBody)
    IN IF nr.err # Nil
       THEN NoTrip(Errorf("failed to create request: %w", nr.err), <<>>)
       ELSE {LET resp == d.resp
                 dec == decodeZonesResponse(resp.Body)
                 res == IF resp.err # Nil
                        THEN <<Errorf("failed to execute request: %w", resp.err), <<>>>>
                        ELSE IF resp.StatusCode # StatusOK
                        THEN <<createApiErrorMessage(resp), <<>>>>
                        ELSE IF dec.err # Nil
                        THEN <<Errorf("failed to decode response body: %w", dec.err), <<>>>>
                        ELSE <<Nil, dec.v>>
             IN Out(res[1], res[2], <<Trip(nr.req, resp)>>, d.recs, d.nid) :
                d \in Do(nr.req)}

\* mutant: the loop does not return at the first match
firstZoneMatching_Last(zones, domainName) ==
    LET hits == {i \in 1..Len(zones) : EqualFold(zones[i].Name, domainName)}
    IN CHOOSE i \in hits : \A j \in hits : i >= j

firstZoneMatching(zones, domainName) ==
    LET hits == {i \in 1..Len(zones) : EqualFold(zones[i].Name, domainName)}
    IN CHOOSE i \in hits : \A j \in hits : i <= j

FindZoneID(domainName) ==
    {IF o.err # Nil THEN [o EXCEPT !.val = <<>>]
     ELSE IF \E i \in 1..Len(o.val) : EqualFold(o.val[i].Name, domainName)
     THEN [o EXCEPT !.val = o.val[firstZoneMatching(o.val, domainName)].ID]
     ELSE [o EXCEPT !.err = [format |-> "zone for domain %s not found",
                             domainName |-> domainName],
                    !.val = <<>>] :
        o \in FindAllZones}

FindAllRecordsForZone(zoneID) ==
    LET nr == NewRequest("GET", <<apiBaseURL, "/records?zone_id=", zoneID>>,
                         AuthHeader, NoBody)
    IN IF nr.err # Nil
       THEN NoTrip(Errorf("failed to create request: %w", nr.err), <<>>)
       ELSE {LET resp == d.resp
                 dec == decodeRecordsResponse(resp.Body)
                 res == IF resp.err # Nil
                        THEN <<Errorf("failed to execute request: %w", resp.err), <<>>>>
                        ELSE IF resp.StatusCode # StatusOK
                        THEN <<createApiErrorMessage(resp), <<>>>>
                        ELSE IF dec.err # Nil
                        THEN <<Errorf("failed to decode response body: %w", dec.err), <<>>>>
                        ELSE <<Nil, dec.v>>
             IN Out(res[1], res[2], <<Trip(nr.req, resp)>>, d.recs, d.nid) :
                d \in Do(nr.req)}

\* mutant: every record of the zone is taken for a match
FindRecordsByName_NoFilter(zoneID, recordName) ==
    FindAllRecordsForZone(zoneID)

\* mutant: the test of the name is inverted
FindRecordsByName_Inverted(zoneID, recordName) ==
    {IF o.err # Nil THEN o
     ELSE [o EXCEPT !.val = SelectSeq(o.val, LAMBDA r : ~EqualFold(r.Name, recordName))] :
        o \in FindAllRecordsForZone(zoneID)}

\* mutant: the names are compared letter for letter
FindRecordsByName_CaseSensitive(zoneID, recordName) ==
    {IF o.err # Nil THEN o
     ELSE [o EXCEPT !.val = SelectSeq(o.val, LAMBDA r : r.Name = recordName)] :
        o \in FindAllRecordsForZone(zoneID)}

FindRecordsByName(zoneID, recordName) ==
    {IF o.err # Nil THEN o
     ELSE [o EXCEPT !.val = SelectSeq(o.val, LAMBDA r : EqualFold(r.Name, recordName))] :
        o \in FindAllRecordsForZone(zoneID)}

FindRecordById(zoneID, recordId) ==
    {IF o.err # Nil THEN [o EXCEPT !.val = ZeroRecordResponse]
     ELSE LET hits == {i \in 1..Len(o.val) : o.val[i].ID = recordId}
          IN IF hits = {}
             THEN [o EXCEPT !.err = [format |-> "record not found"],
                            !.val = ZeroRecordResponse]
             ELSE [o EXCEPT !.val = o.val[CHOOSE i \in hits : \A j \in hits : i <= j]] :
        o \in FindAllRecordsForZone(zoneID)}

\* the tail every method without a result shares: client.Do, then the status
statusOutcomes(nr, success, withBody) ==
    {LET resp == d.resp
     IN Out(IF resp.err # Nil THEN Errorf("failed to execute request: %w", resp.err)
            ELSE IF resp.StatusCode # success
            THEN IF withBody THEN createApiErrorMessage(resp) ELSE statusOnlyError(resp)
            ELSE Nil,
            <<>>, <<Trip(nr.req, resp)>>, d.recs, d.nid) :
        d \in Do(nr.req)}

UpdateRecord(zoneID, recordID, recordType, recordName, recordValue) ==
    LET updatedRecord == [ID |-> recordID, ZoneID |-> zoneID, Type |-> recordType,
                          Name |-> recordName, Value |-> recordValue]
        nr == NewRequest("PUT", <<apiBaseURL, "/records/", recordID>>, JsonHeader,
                         MarshalRecordUpdateRequest(updatedRecord))
    IN IF nr.err # Nil
       THEN NoTrip(Errorf("failed to create request: %w", nr.err), <<>>)
       ELSE statusOutcomes(nr, StatusOK, TRUE)

\* mutant: 200 is taken for success, as in the other methods
CreateRecord_AcceptsOK(zoneID, recordType, recordName, recordValue) ==
    LET newRecord == [ID |-> <<>>, ZoneID |-> zoneID, Type |-> recordType,
                      Name |-> recordName, Value |-> recordValue]
        nr == NewRequest("POST", <<apiBaseURL, "/records">>, JsonHeader,
                         MarshalRecordUpdateRequest(newRecord))
    IN IF nr.err # Nil
       THEN NoTrip(Errorf("failed to create request: %w", nr.err), <<>>)
       ELSE statusOutcomes(nr, StatusOK, TRUE)

CreateRecord(zoneID, recordType, recordName, recordValue) ==
    LET newRecord == [ID |-> <<>>, ZoneID |-> zoneID, Type |-> recordType,
                      Name |-> recordName, Value |-> recordValue]
        nr == NewRequest("POST", <<apiBaseURL, "/records">>, JsonHeader,
                         MarshalRecordUpdateRequest(newRecord))
    IN IF nr.err # Nil
       THEN NoTrip(Errorf("failed to create request: %w", nr.err), <<>>)
       ELSE statusOutcomes(nr, StatusCreated, TRUE)

DeleteRecord(recordID) ==
    LET nr == NewRequest("DELETE", <<apiBaseURL, "/records/", recordID>>, JsonHeader, NoBody)
    IN IF nr.err # Nil
       THEN NoTrip(Errorf("failed to create request: %w", nr.err), <<>>)
       ELSE statusOutcomes(nr, StatusOK, FALSE)

\* the []RecordUpdateRequest values a caller passes to the bulk methods
Batches ==
    LET r(id, name) == [ID |-> id, ZoneID |-> <<"z">>, Type |-> <<"A">>, Name |-> name,
                        Value |-> <<"x">>]
    IN {<<>>, <<r(<<>>, <<"w">>)>>, <<r(<<"1">>, <<"w">>), r(<<"2">>, <<"m">>)>>}

BulkCreateRecord(zoneID, recs) ==
    LET nr == NewRequest("POST", <<apiBaseURL, "/records/bulk">>, JsonHeader,
                         MarshalBulkRecordUpdateRequest(recs))
    IN IF nr.err # Nil
       THEN NoTrip(Errorf("failed to create request: %w", nr.err), <<>>)
       ELSE statusOutcomes(nr, StatusOK, TRUE)

BulkUpdateRecord(zoneID, recs) ==
    LET nr == NewRequest("PUT", <<apiBaseURL, "/records/bulk">>, JsonHeader,
                         MarshalBulkRecordUpdateRequest(recs))
    IN IF nr.err # Nil
       THEN NoTrip(Errorf("failed to create request: %w", nr.err), <<>>)
       ELSE statusOutcomes(nr, StatusOK, TRUE)

FormHeader ==
    ("Content-Type" :> "application/x-www-form-urlencoded; charset=utf-8") @@ AuthHeader
PlainHeader == ("Content-Type" :> "text/plain") @@ AuthHeader

ExportZoneFile(zoneID) ==
    LET nr == NewRequest("GET", <<apiBaseURL, "/zones/", zoneID, "/export">>,
                         FormHeader, NoBody)
    IN IF nr.err # Nil
       THEN NoTrip(Errorf("failed to create request: %w", nr.err), NoBody)
       ELSE {LET resp == d.resp
                 res == IF resp.err # Nil
                        THEN <<Errorf("failed to execute request: %w", resp.err), NoBody>>
                        ELSE IF resp.StatusCode # StatusOK
                        THEN <<statusOnlyError(resp), NoBody>>
                        ELSE IF resp.Body = Unreadable
                        THEN <<ErrBodyRead, NoBody>>
                        ELSE <<Nil, resp.Body>>
             IN Out(res[1], res[2], <<Trip(nr.req, resp)>>, d.recs, d.nid) :
                d \in Do(nr.req)}

ValidateZoneFile(zoneFile) ==
    LET file == ReadFile(zoneFile)
        nr == NewRequest("POST", <<apiBaseURL, "/zones/file/validate">>, PlainHeader,
                         file.data)
    IN IF file.err # Nil
       THEN NoTrip(Errorf("failed to read zone file: %w", file.err), <<>>)
       ELSE IF nr.err # Nil
       THEN NoTrip(Errorf("failed to create request: %w", nr.err), <<>>)
       ELSE statusOutcomes(nr, StatusOK, TRUE)

ImportZoneFile(zoneID, zoneFile) ==
    LET file == ReadFile(zoneFile)
        nr == NewRequest("POST", <<apiBaseURL, "/zones/", zoneID, "/import">>, PlainHeader,
                         file.data)
    IN IF file.err # Nil
       THEN NoTrip(Errorf("failed to read zone file: %w", file.err), <<>>)
       ELSE IF nr.err # Nil
       THEN NoTrip(Errorf("failed to create request: %w", nr.err), <<>>)
       ELSE statusOutcomes(nr, StatusOK, TRUE)

\* the tail of the methods that decode one value out of the response body
decodeOutcomes(nr, list) ==
    {LET resp == d.resp
         dec == IF list THEN decodePrimaryServersResponse(resp.Body)
                ELSE decodePrimaryServerResponse(resp.Body)
         zero == IF list THEN <<>> ELSE ZeroPrimaryServer
         res == IF resp.err # Nil
                THEN <<Errorf("failed to execute request: %w", resp.err), zero>>
                ELSE IF resp.StatusCode # StatusOK
                THEN <<createApiErrorMessage(resp), zero>>
                ELSE IF dec.err # Nil
                THEN <<Errorf("failed to decode response body: %w", dec.err), zero>>
                ELSE <<Nil, dec.v>>
     IN Out(res[1], res[2], <<Trip(nr.req, resp)>>, d.recs, d.nid) :
        d \in Do(nr.req)}

FindAllPrimaryServers ==
    LET nr == NewRequest("GET", <<apiBaseURL, "/primary_servers">>, AuthHeader, NoBody)
    IN IF nr.err # Nil
       THEN NoTrip(Errorf("failed to create request: %w", nr.err), <<>>)
       ELSE decodeOutcomes(nr, TRUE)

CreatePrimaryServer(zoneID, address, port) ==
    LET primaryServer == [ZeroPrimaryServer EXCEPT !.ZoneID = zoneID, !.Address = address,
                                                   !.Port = port]
        nr == NewRequest("POST", <<apiBaseURL, "/primary_servers">>, JsonHeader,
                         MarshalPrimaryServer(primaryServer))
    IN IF nr.err # Nil
       THEN NoTrip(Errorf("failed to create request: %w", nr.err), <<>>)
       ELSE statusOutcomes(nr, StatusOK, TRUE)

UpdatePrimaryServer(zoneID, id, address, port) ==
    LET primaryServer == [ZeroPrimaryServer EXCEPT !.ID = id, !.ZoneID = zoneID,
                                                   !.Address = address, !.Port = port]
        nr == NewRequest("PUT", <<apiBaseURL, "/primary_servers">>, JsonHeader,
                         MarshalPrimaryServer(primaryServer))
    IN IF nr.err # Nil
       THEN NoTrip(Errorf("failed to create request: %w", nr.err), <<>>)
       ELSE statusOutcomes(nr, StatusOK, TRUE)

GetPrimaryServer(id) ==
    LET nr == NewRequest("GET", <<apiBaseURL, "/primary_servers/", id>>, JsonHeader, NoBody)
    IN IF nr.err # Nil
       THEN NoTrip(Errorf("failed to create request: %w", nr.err), ZeroPrimaryServer)
       ELSE decodeOutcomes(nr, FALSE)

DeletePrimaryServer(id) ==
    LET nr == NewRequest("DELETE", <<apiBaseURL, "/primary_servers/", id>>, JsonHeader,
                         NoBody)
    IN IF nr.err # Nil
       THEN NoTrip(Errorf("failed to create request: %w", nr.err), ZeroPrimaryServer)
       ELSE decodeOutcomes(nr, FALSE)

(***************************************************************************)
(* Calls.  A process calls one method at a time.  A method of one round    *)
(* trip is one step.  CreateOrUpdateRecord is two: other processes can     *)
(* reach the remote API between its read and its write.                    *)
(***************************************************************************)
NoCall == [op |-> "none"]
NoReturn == [err |-> [format |-> "no return"]]
Running == [err |-> [format |-> "running"]]
NoPrev == [call |-> NoCall, ret |-> NoReturn, rt |-> <<>>, after |-> <<>>]

\* against the mock transport calls are independent of each other: one is made
CanCall(p) ==
    /\ pc[p] = "idle"
    /\ IF transport = "mock" THEN ncalls = 0 ELSE ncalls < MaxCalls

Shift(p) == [prev EXCEPT ![p] = [call |-> call[p], ret |-> ret[p], rt |-> rt[p],
                                 after |-> after[p]]]

\* what a method returns, by its signature
Returned(op, o) ==
    CASE op = "FindAllZones" -> [err |-> o.err, zones |-> o.val]
      [] op = "FindZoneID" -> [err |-> o.err, id |-> o.val]
      [] op \in {"FindAllRecordsForZone", "FindRecordsByName"} ->
            [err |-> o.err, records |-> o.val]
      [] op = "FindRecordById" -> [err |-> o.err, record |-> o.val]
      [] op = "ExportZoneFile" -> [err |-> o.err, data |-> o.val]
      [] op = "FindAllPrimaryServers" -> [err |-> o.err, servers |-> o.val]
      [] op \in {"GetPrimaryServer", "DeletePrimaryServer"} ->
            [err |-> o.err, server |-> o.val]
      [] OTHER -> [err |-> o.err]

\* p calls c, which runs to its return with outcome o
Return(p, c, o) ==
    /\ call' = [call EXCEPT ![p] = c]
    /\ ret' = [ret EXCEPT ![p] = Returned(c.op, o)]
    /\ rt' = [rt EXCEPT ![p] = o.trips]
    /\ records' = o.recs
    /\ nextId' = o.nid
    /\ after' = [after EXCEPT ![p] = o.recs]
    /\ prev' = Shift(p)
    /\ ncalls' = ncalls + 1
    /\ UNCHANGED <<h, transport, pc, found>>

CallFindAllZones(p) ==
    /\ CanCall(p)
    /\ \E o \in FindAllZones : Return(p, [op |-> "FindAllZones"], o)

CallFindZoneID(p) ==
    /\ CanCall(p)
    /\ \E domainName \in Names : \E o \in FindZoneID(domainName) :
          Return(p, [op |-> "FindZoneID", domainName |-> domainName], o)

CallFindAllRecordsForZone(p) ==
    /\ CanCall(p)
    /\ \E zoneID \in ZoneIDs : \E o \in FindAllRecordsForZone(zoneID) :
          Return(p, [op |-> "FindAllRecordsForZone", zoneID |-> zoneID], o)

CallFindRecordsByName(p) ==
    /\ CanCall(p)
    /\ \E zoneID \in ZoneIDs, recordName \in Names :
          \E o \in FindRecordsByName(zoneID, recordName) :
             Return(p, [op |-> "FindRecordsByName", zoneID |-> zoneID,
                        recordName |-> recordName], o)

CallFindRecordById(p) ==
    /\ CanCall(p)
    /\ \E zoneID \in ZoneIDs, recordId \in RecordIDs :
          \E o \in FindRecordById(zoneID, recordId) :
             Return(p, [op |-> "FindRecordById", zoneID |-> zoneID,
                        recordId |-> recordId], o)

CallUpdateRecord(p) ==
    /\ CanCall(p)
    /\ \E zoneID \in ZoneIDs, recordID \in RecordIDs, recordType \in Types,
          recordName \in Names, recordValue \in Values :
          \E o \in UpdateRecord(zoneID, recordID, recordType, recordName, recordValue) :
             Return(p, [op |-> "UpdateRecord", zoneID |-> zoneID, recordID |-> recordID,
                        recordType |-> recordType, recordName |-> recordName,
                        recordValue |-> recordValue], o)

\* UpdateRecord called for a record the remote API holds, with the name it has
CallUpdateRecordUnchangedName(p) ==
    /\ CanCall(p)
    /\ \E i \in 1..Len(records), recordType \in Types, recordValue \in Values :
          LET r == records[i]
          IN \E o \in UpdateRecord(r.zone_id, r.id, recordType, r.name, recordValue) :
                Return(p, [op |-> "UpdateRecord", zoneID |-> r.zone_id,
                           recordID |-> r.id, recordType |-> recordType,
                           recordName |-> r.name, recordValue |-> recordValue], o)

CallCreateRecord(p) ==
    /\ CanCall(p)
    /\ \E zoneID \in ZoneIDs, recordType \in Types, recordName \in Names,
          recordValue \in Values :
          \E o \in CreateRecord(zoneID, recordType, recordName, recordValue) :
             Return(p, [op |-> "CreateRecord", zoneID |-> zoneID,
                        recordType |-> recordType, recordName |-> recordName,
                        recordValue |-> recordValue], o)

CallDeleteRecord(p) ==
    /\ CanCall(p)
    /\ \E recordID \in RecordIDs : \E o \in DeleteRecord(recordID) :
          Return(p, [op |-> "DeleteRecord", recordID |-> recordID], o)

CallBulkCreateRecord(p) ==
    /\ CanCall(p)
    /\ \E zoneID \in ZoneIDs, recs \in Batches : \E o \in BulkCreateRecord(zoneID, recs) :
          Return(p, [op |-> "BulkCreateRecord", zoneID |-> zoneID, records |-> recs], o)

CallBulkUpdateRecord(p) ==
    /\ CanCall(p)
    /\ \E zoneID \in ZoneIDs, recs \in Batches : \E o \in BulkUpdateRecord(zoneID, recs) :
          Return(p, [op |-> "BulkUpdateRecord", zoneID |-> zoneID, records |-> recs], o)

CallExportZoneFile(p) ==
    /\ CanCall(p)
    /\ \E zoneID \in ZoneIDs : \E o \in ExportZoneFile(zoneID) :
          Return(p, [op |-> "ExportZoneFile", zoneID |-> zoneID], o)

CallValidateZoneFile(p) ==
    /\ CanCall(p)
    /\ \E zoneFile \in ZoneFiles : \E o \in ValidateZoneFile(zoneFile) :
          Return(p, [op |-> "ValidateZoneFile", zoneFile |-> zoneFile], o)

CallImportZoneFile(p) ==
    /\ CanCall(p)
    /\ \E zoneID \in ZoneIDs, zoneFile \in ZoneFiles :
          \E o \in ImportZoneFile(zoneID, zoneFile) :
             Return(p, [op |-> "ImportZoneFile", zoneID |-> zoneID,
                        zoneFile |-> zoneFile], o)

CallFindAllPrimaryServers(p) ==
    /\ CanCall(p)
    /\ \E o \in FindAllPrimaryServers : Return(p, [op |-> "FindAllPrimaryServers"], o)

CallCreatePrimaryServer(p) ==
    /\ CanCall(p)
    /\ \E zoneID \in ZoneIDs, address \in {<<"a">>}, port \in {53} :
          \E o \in CreatePrimaryServer(zoneID, address, port) :
             Return(p, [op |-> "CreatePrimaryServer", zoneID |-> zoneID,
                        address |-> address, port |-> port], o)

CallUpdatePrimaryServer(p) ==
    /\ CanCall(p)
    /\ \E zoneID \in ZoneIDs, id \in RecordIDs, address \in {<<"a">>}, port \in {53} :
          \E o \in UpdatePrimaryServer(zoneID, id, address, port) :
             Return(p, [op |-> "UpdatePrimaryServer", zoneID |-> zoneID, id |-> id,
                        address |-> address, port |-> port], o)

CallGetPrimaryServer(p) ==
    /\ CanCall(p)
    /\ \E id \in RecordIDs : \E o \in GetPrimaryServer(id) :
          Return(p, [op |-> "GetPrimaryServer", id |-> id], o)

CallDeletePrimaryServer(p) ==
    /\ CanCall(p)
    /\ \E id \in RecordIDs : \E o \in DeletePrimaryServer(id) :
          Return(p, [op |-> "DeletePrimaryServer", id |-> id], o)

\* mutant: the error of the read is dropped and the call goes on to the write
CreateOrUpdateRecord_Find_FallsThrough(p) ==
    /\ CanCall(p)
    /\ \E zoneID \in ZoneIDs, recordType \in Types, recordName \in Names,
          recordValue \in Values :
          LET c == [op |-> "CreateOrUpdateRecord", zoneID |-> zoneID,
                    recordType |-> recordType, recordName |-> recordName,
                    recordValue |-> recordValue]
          IN \E o \in FindRecordsByName(zoneID, recordName) :
                IF FALSE
                THEN Return(p, c, [o EXCEPT !.val = <<>>])
                ELSE /\ pc' = [pc EXCEPT ![p] = "write"]
                     /\ found' = [found EXCEPT ![p] = o.val]
                     /\ call' = [call EXCEPT ![p] = c]
                     /\ ret' = [ret EXCEPT ![p] = Running]
                     /\ rt' = [rt EXCEPT ![p] = o.trips]
                     /\ records' = o.recs
                     /\ nextId' = o.nid
                     /\ prev' = Shift(p)
                     /\ ncalls' = ncalls + 1
                     /\ UNCHANGED <<h, transport, after>>

\* mutant: the error of the read is wrapped
CreateOrUpdateRecord_Find_Wraps(p) ==
    /\ CanCall(p)
    /\ \E zoneID \in ZoneIDs, recordType \in Types, recordName \in Names,
          recordValue \in Values :
          LET c == [op |-> "CreateOrUpdateRecord", zoneID |-> zoneID,
                    recordType |-> recordType, recordName |-> recordName,
                    recordValue |-> recordValue]
          IN \E o \in FindRecordsByName(zoneID, recordName) :
                IF o.err # Nil
                THEN Return(p, c, [o EXCEPT !.val = <<>>,
                                          !.err = Errorf("failed to find records: %w", o.err)])
                ELSE /\ pc' = [pc EXCEPT ![p] = "write"]
                     /\ found' = [found EXCEPT ![p] = o.val]
                     /\ call' = [call EXCEPT ![p] = c]
                     /\ ret' = [ret EXCEPT ![p] = Running]
                     /\ rt' = [rt EXCEPT ![p] = o.trips]
                     /\ records' = o.recs
                     /\ nextId' = o.nid
                     /\ prev' = Shift(p)
                     /\ ncalls' = ncalls + 1
                     /\ UNCHANGED <<h, transport, after>>

\* CreateOrUpdateRecord up to the return of FindRecordsByName
CreateOrUpdateRecord_Find(p) ==
    /\ CanCall(p)
    /\ \E zoneID \in ZoneIDs, recordType \in Types, recordName \in Names,
          recordValue \in Values :
          LET c == [op |-> "CreateOrUpdateRecord", zoneID |-> zoneID,
                    recordType |-> recordType, recordName |-> recordName,
                    recordValue |-> recordValue]
          IN \E o \in FindRecordsByName(zoneID, recordName) :
                IF o.err # Nil
                THEN Return(p, c, [o EXCEPT !.val = <<>>])
                ELSE /\ pc' = [pc EXCEPT ![p] = "write"]
                     /\ found' = [found EXCEPT ![p] = o.val]
                     /\ call' = [call EXCEPT ![p] = c]
                     /\ ret' = [ret EXCEPT ![p] = Running]
                     /\ rt' = [rt EXCEPT ![p] = o.trips]
                     /\ records' = o.recs
                     /\ nextId' = o.nid
                     /\ prev' = Shift(p)
                     /\ ncalls' = ncalls + 1
                     /\ UNCHANGED <<h, transport, after>>

\* mutant: the update carries the caller's type
CreateOrUpdateRecord_Write_CallerType(p) ==
    /\ pc[p] = "write"
    /\ LET c == call[p]
           record == found[p][1]
       IN \E o \in (IF Len(found[p]) > 0
                    THEN UpdateRecord(c.zoneID, record.ID, c.recordType, record.Name,
                                      c.recordValue)
                    ELSE CreateRecord(c.zoneID, c.recordType, c.recordName,
                                      c.recordValue)) :
             /\ pc' = [pc EXCEPT ![p] = "idle"]
             /\ found' = [found EXCEPT ![p] = <<>>]
             /\ ret' = [ret EXCEPT ![p] = [err |-> o.err]]
             /\ rt' = [rt EXCEPT ![p] = rt[p] \o o.trips]
             /\ records' = o.recs
             /\ nextId' = o.nid
             /\ after' = [after EXCEPT ![p] = o.recs]
             /\ UNCHANGED <<h, transport, call, prev, ncalls>>

\* mutant: the write looks at the remote records again, in one step with the write
CreateOrUpdateRecord_Write_Atomic(p) ==
    /\ pc[p] = "write"
    /\ LET c == call[p]
           now == SelectSeq(records, LAMBDA r : r.zone_id = c.zoneID
                                                 /\ EqualFold(r.name, c.recordName))
           record == IF Len(found[p]) > 0 THEN found[p][1]
                     ELSE [ID |-> now[1].id, Type |-> now[1].type, Name |-> now[1].name]
       IN \E o \in (IF Len(found[p]) > 0 \/ Len(now) > 0
                    THEN UpdateRecord(c.zoneID, record.ID, record.Type, record.Name,
                                      c.recordValue)
                    ELSE CreateRecord(c.zoneID, c.recordType, c.recordName,
                                      c.recordValue)) :
             /\ pc' = [pc EXCEPT ![p] = "idle"]
             /\ found' = [found EXCEPT ![p] = <<>>]
             /\ ret' = [ret EXCEPT ![p] = [err |-> o.err]]
             /\ rt' = [rt EXCEPT ![p] = rt[p] \o o.trips]
             /\ records' = o.recs
             /\ nextId' = o.nid
             /\ after' = [after EXCEPT ![p] = o.recs]
             /\ UNCHANGED <<h, transport, call, prev, ncalls>>

\* CreateOrUpdateRecord from len(records) > 0 to its return
CreateOrUpdateRecord_Write(p) ==
    /\ pc[p] = "write"
    /\ LET c == call[p]
           record == found[p][1]
       IN \E o \in (IF Len(found[p]) > 0
                    THEN UpdateRecord(c.zoneID, record.ID, record.Type, record.Name,
                                      c.recordValue)
                    ELSE CreateRecord(c.zoneID, c.recordType, c.recordName,
                                      c.recordValue)) :
             /\ pc' = [pc EXCEPT ![p] = "idle"]
             /\ found' = [found EXCEPT ![p] = <<>>]
             /\ ret' = [ret EXCEPT ![p] = [err |-> o.err]]
             /\ rt' = [rt EXCEPT ![p] = rt[p] \o o.trips]
             /\ records' = o.recs
             /\ nextId' = o.nid
             /\ after' = [after EXCEPT ![p] = o.recs]
             /\ UNCHANGED <<h, transport, call, prev, ncalls>>

(***************************************************************************)
(* Specifications                                                          *)
(***************************************************************************)
InitClient ==
    /\ h \in [APIKey : {"token"}, APIBaseUrl : BaseUrls]
    /\ pc = [p \in Procs |-> "idle"]
    /\ call = [p \in Procs |-> NoCall]
    /\ found = [p \in Procs |-> <<>>]
    /\ ret = [p \in Procs |-> NoReturn]
    /\ rt = [p \in Procs |-> <<>>]
    /\ prev = [p \in Procs |-> NoPrev]
    /\ ncalls = 0

\* the client against a mock transport
Init ==
    /\ InitClient
    /\ transport = "mock"
    /\ records = <<>>
    /\ nextId = 1
    /\ after = [p \in Procs |-> <<>>]

\* the one caller of the mock transport
MockCallers == {1}

Next ==
    \E p \in MockCallers :
        \/ CallFindAllZones(p)
        \/ CallFindZoneID(p)
        \/ CallFindAllRecordsForZone(p)
        \/ CallFindRecordsByName(p)
        \/ CallFindRecordById(p)
        \/ CallUpdateRecord(p)
        \/ CallCreateRecord(p)
        \/ CallBulkCreateRecord(p)
        \/ CallBulkUpdateRecord(p)
        \/ CallDeleteRecord(p)
        \/ CallExportZoneFile(p)
        \/ CallValidateZoneFile(p)
        \/ CallImportZoneFile(p)
        \/ CallFindAllPrimaryServers(p)
        \/ CallCreatePrimaryServer(p)
        \/ CallUpdatePrimaryServer(p)
        \/ CallGetPrimaryServer(p)
        \/ CallDeletePrimaryServer(p)
        \/ CreateOrUpdateRecord_Find(p)
        \/ CreateOrUpdateRecord_Write(p)

Spec == Init /\ [][Next]_vars

\* the records the remote API holds at the start: at most one for each id of
\* RecordIDs, record i with id i; record 1 is an A record, the others MX
SeedRecords ==
    {s \in SeqsUpTo([id : RecordIDs, type : Types, name : Names, value : {<<"x">>},
                     zone_id : ZoneIDs], Cardinality(RecordIDs)) :
        \A i \in 1..Len(s) :
            /\ s[i].id = <<IdChars[i]>>
            /\ s[i].type = IF i = 1 THEN <<"A">> ELSE <<"M", "X">>}

\* callers of CreateOrUpdateRecord, running concurrently against the remote API
InitRemote ==
    /\ InitClient
    /\ h.APIBaseUrl = ""
    /\ transport = "server"
    /\ records \in SeedRecords
    /\ nextId = Len(records) + 1
    /\ after = [p \in Procs |-> records]

NextRemote ==
    \E p \in Procs :
        \/ CreateOrUpdateRecord_Find(p)
        \/ CreateOrUpdateRecord_Write(p)

SpecRemote == InitRemote /\ [][NextRemote]_vars

\* one caller: calls follow each other
NextSeq ==
    \/ CallCreateRecord(1)
    \/ CallDeleteRecord(1)
    \/ CreateOrUpdateRecord_Find(1)
    \/ CreateOrUpdateRecord_Write(1)

SpecSeq == InitRemote /\ [][NextSeq]_vars

\* no two records of the zone share a name, compared as FindRecordsByName does
UniqueNames(recs) ==
    \A i, j \in 1..Len(recs) :
        (i # j /\ recs[i].zone_id = recs[j].zone_id)
        => ~EqualFold(recs[i].name, recs[j].name)

\* one caller of a zone whose records have names of their own
InitUnique ==
    /\ InitRemote
    /\ UniqueNames(records)

NextUnique ==
    \/ CallUpdateRecordUnchangedName(1)
    \/ CallDeleteRecord(1)
    \/ CreateOrUpdateRecord_Find(1)
    \/ CreateOrUpdateRecord_Write(1)

SpecUnique == InitUnique /\ [][NextUnique]_vars

(***************************************************************************)
(* What a state tells about the calls                                      *)
(***************************************************************************)
Finished(p, op) == pc[p] = "idle" /\ call[p].op = op

\* the first round trip of p's call was answered 200 with a body that decodes
ReadListed(p) ==
    /\ Len(rt[p]) >= 1
    /\ rt[p][1].req.method = "GET"
    /\ rt[p][1].resp.err = Nil
    /\ rt[p][1].resp.StatusCode = 200
    /\ decodeRecordsResponse(rt[p][1].resp.Body).err = Nil

\* the records that read listed, and those of them with the name p asked for
Listed(p) == decodeRecordsResponse(rt[p][1].resp.Body).v
Matching(p) == SelectSeq(Listed(p), LAMBDA r : EqualFold(r.Name, call[p].recordName))

\* the write requests of p's call
Writes(p) == SelectSeq(rt[p], LAMBDA t : t.req.method # "GET")

\* C1: when the list-records read of CreateOrUpdateRecord returns no record
\* with the name asked for, compared without case, the call issues exactly
\* one write request: a POST to /records with the caller's zone id, type,
\* name and value; it issues no PUT.
C1_CreateWhenNoMatch ==
    \A p \in Procs :
        (Finished(p, "CreateOrUpdateRecord") /\ ReadListed(p) /\ Matching(p) = <<>>)
        => /\ Len(rt[p]) = 2
           /\ Len(Writes(p)) = 1
           /\ rt[p][2].req.method = "POST"
           /\ rt[p][2].req.url = <<apiBaseURL, "/records">>
           /\ rt[p][2].req.body.o.zone_id = JStr(call[p].zoneID)
           /\ rt[p][2].req.body.o.type = JStr(call[p].recordType)
           /\ rt[p][2].req.body.o.name = JStr(call[p].recordName)
           /\ rt[p][2].req.body.o.value = JStr(call[p].recordValue)
           /\ \A i \in 1..Len(rt[p]) : rt[p][i].req.method # "PUT"

\* a call that created although the read listed records, all of other names
C1_Witness ==
    \E p \in Procs :
        /\ Finished(p, "CreateOrUpdateRecord") /\ ReadListed(p)
        /\ Matching(p) = <<>> /\ Len(Listed(p)) = 2
        /\ Len(rt[p]) = 2 /\ rt[p][2].req.method = "POST"
        /\ ret[p].err = Nil

\* C2: when the list-records read returns records with the name asked for,
\* CreateOrUpdateRecord issues exactly one write request: a PUT to the id of
\* the first match in list order, with that record's type and name and the
\* caller's value; no POST, and no request to another matching record.
C2_UpdateFirstMatch ==
    \A p \in Procs :
        (Finished(p, "CreateOrUpdateRecord") /\ ReadListed(p) /\ Matching(p) # <<>>)
        => LET first == Matching(p)[1]
           IN /\ Len(rt[p]) = 2
              /\ Len(Writes(p)) = 1
              /\ rt[p][2].req.method = "PUT"
              /\ rt[p][2].req.url = <<apiBaseURL, "/records/", first.ID>>
              /\ rt[p][2].req.body.o.id = JStr(first.ID)
              /\ rt[p][2].req.body.o.type = JStr(first.Type)
              /\ rt[p][2].req.body.o.name = JStr(first.Name)
              /\ rt[p][2].req.body.o.value = JStr(call[p].recordValue)
              /\ \A i \in 1..Len(rt[p]) : rt[p][i].req.method # "POST"

\* two matches with different ids; the first differs from the call in the
\* type and in the case of the name
C2_Witness ==
    \E p \in Procs :
        /\ Finished(p, "CreateOrUpdateRecord") /\ ReadListed(p)
        /\ Len(Matching(p)) = 2
        /\ Matching(p)[1].ID # Matching(p)[2].ID
        /\ Matching(p)[1].Type # call[p].recordType
        /\ Matching(p)[1].Name # call[p].recordName
        /\ rt[p][2].req.url[3] = Matching(p)[1].ID
        /\ ret[p].err = Nil

\* the remote records with the name n, compared without case
Named(recs, n) == {i \in 1..Len(recs) : EqualFold(recs[i].name, n)}

\* p's call has returned, having read no record of its name and created one
ReadNoneAndCreated(p) ==
    /\ Finished(p, "CreateOrUpdateRecord") /\ ReadListed(p) /\ Matching(p) = <<>>
    /\ ret[p].err = Nil

\* C3: two CreateOrUpdateRecord calls for the same zone and name that run
\* concurrently from a zone without a record of that name can both read no
\* record and both create one: whenever both have, the zone holds two records
\* of that name, as the remote API does not enforce unique names.
C3_BothCreate ==
    \A p, q \in Procs :
        (/\ p # q
         /\ ReadNoneAndCreated(p) /\ ReadNoneAndCreated(q)
         /\ call[p].zoneID = call[q].zoneID
         /\ EqualFold(call[p].recordName, call[q].recordName))
        => /\ rt[p][2].req.method = "POST" /\ rt[q][2].req.method = "POST"
           /\ Cardinality(Named(records, call[p].recordName)) >= 2

\* both calls read an empty zone and returned; the zone holds exactly the two
\* records they created, under one name
C3_Witness ==
    /\ ReadNoneAndCreated(1) /\ ReadNoneAndCreated(2)
    /\ Listed(1) = <<>> /\ Listed(2) = <<>>
    /\ call[1].recordName = call[2].recordName
    /\ Len(records) = 2
    /\ Cardinality(Named(records, call[1].recordName)) = 2
    /\ records[1].id # records[2].id

\* what the claims compare of a record
Content(recs) ==
    {[id |-> recs[i].id, type |-> recs[i].type, name |-> recs[i].name,
      value |-> recs[i].value] : i \in 1..Len(recs)}

\* C4: calls following each other, against a remote API that applies every
\* write it accepts: after a successful CreateOrUpdateRecord, a second call
\* with the same arguments issues an update, not a create, and leaves the
\* ids, types, names and values of the zone's records as the first call left
\* them.
C4_SecondCallIdempotent ==
    (/\ Finished(1, "CreateOrUpdateRecord")
     /\ ret[1].err = Nil
     /\ prev[1].call = call[1]
     /\ prev[1].ret.err = Nil)
    => /\ Len(rt[1]) = 2
       /\ rt[1][2].req.method = "PUT"
       /\ Content(after[1]) = Content(prev[1].after)
       /\ Content(records) = Content(prev[1].after)

\* the first call created the record, the second one updated it
C4_Witness ==
    /\ Finished(1, "CreateOrUpdateRecord") /\ ret[1].err = Nil
    /\ prev[1].call = call[1] /\ prev[1].ret.err = Nil
    /\ prev[1].rt[2].req.method = "POST"
    /\ rt[1][2].req.method = "PUT"
    /\ rt[1][2].req.url[3] = prev[1].rt[2].resp.Body.o.record.o.id.s

\* the status a method takes for success
SuccessStatus(p) ==
    IF rt[p][Len(rt[p])].req.method = "POST" /\ rt[p][Len(rt[p])].req.url[2] = "/records"
    THEN 201 ELSE 200

\* p's call has returned and its last round trip was answered with another
\* status than the one it takes for success, and with a body that can be read
AnsweredFailure(p) ==
    /\ pc[p] = "idle" /\ call[p].op # "none"
    /\ Len(rt[p]) >= 1
    /\ rt[p][Len(rt[p])].resp.err = Nil
    /\ rt[p][Len(rt[p])].resp.StatusCode # SuccessStatus(p)
    /\ rt[p][Len(rt[p])].resp.Body # Unreadable

CarriesStatusAndBody(err, resp) ==
    /\ "status" \in DOMAIN err /\ err.status = resp.StatusCode
    /\ "body" \in DOMAIN err /\ err.body = resp.Body

\* C5: for every method, DeleteRecord and ExportZoneFile included, the error
\* returned for a response of another status than success carries the
\* status code and the body of the response, verbatim.
C5_ErrorCarriesStatusAndBody ==
    \A p \in Procs :
        AnsweredFailure(p) => CarriesStatusAndBody(ret[p].err, rt[p][Len(rt[p])].resp)

\* p's call made one round trip, which was answered
Answered(p, op) ==
    /\ Finished(p, op) /\ Len(rt[p]) = 1 /\ rt[p][1].resp.err = Nil

\* C6: CreateRecord returns no error exactly when the response status is 201
\* (a 200 is an error), UpdateRecord exactly when it is 200 (a 201 is an
\* error).
C6_SuccessStatusAsymmetry ==
    \A p \in Procs :
        /\ Answered(p, "CreateRecord")
           => (ret[p].err = Nil <=> rt[p][1].resp.StatusCode = 201)
        /\ Answered(p, "UpdateRecord")
           => (ret[p].err = Nil <=> rt[p][1].resp.StatusCode = 200)

\* CreateRecord answered 200 returned the API error of that response
C6_Witness ==
    \E p \in Procs :
        /\ Answered(p, "CreateRecord")
        /\ rt[p][1].resp.StatusCode = 200
        /\ rt[p][1].resp.Body # Unreadable
        /\ ret[p].err = createApiErrorMessage(rt[p][1].resp)
        /\ "status" \in DOMAIN ret[p].err /\ ret[p].err.status = 200

\* the request of a call can be built: the base URL parses, and the zone file
\* of ValidateZoneFile and ImportZoneFile can be read
RequestBuilt(p) ==
    /\ h.APIBaseUrl \notin MalformedBaseUrls
    /\ call[p].op \in {"ValidateZoneFile", "ImportZoneFile"}
       => ReadFile(call[p].zoneFile).err = Nil

\* C7 as stated: every method issues exactly one HTTP round trip per call,
\* except CreateOrUpdateRecord, which issues two: the list-records read, then
\* one write, sent after the read has completed.
C7_ExactlyOneRoundTrip ==
    \A p \in Procs :
        (pc[p] = "idle" /\ call[p].op # "none")
        => IF call[p].op = "CreateOrUpdateRecord"
           THEN /\ Len(rt[p]) = 2
                /\ rt[p][1].req.method = "GET"
                /\ rt[p][2].req.method \in {"POST", "PUT"}
           ELSE Len(rt[p]) = 1

\* C7, amended: every method issues at most one HTTP round trip per call:
\* one when its request could be built, none otherwise.  CreateOrUpdateRecord
\* issues the list-records read first and, only after that read has completed
\* with success, one write; when the read fails it is the only round trip.
C7_RoundTrips ==
    \A p \in Procs :
        /\ (pc[p] = "idle" /\ call[p].op \notin {"none", "CreateOrUpdateRecord"})
           => Len(rt[p]) = IF RequestBuilt(p) THEN 1 ELSE 0
        /\ Finished(p, "CreateOrUpdateRecord")
           => IF ~RequestBuilt(p) THEN rt[p] = <<>>
              ELSE /\ rt[p][1].req.method = "GET"
                   /\ rt[p][1].req.url = <<apiBaseURL, "/records?zone_id=", call[p].zoneID>>
                   /\ IF ReadListed(p)
                      THEN Len(rt[p]) = 2 /\ rt[p][2].req.method \in {"POST", "PUT"}
                      ELSE Len(rt[p]) = 1
        /\ pc[p] = "write" => (Len(rt[p]) = 1 /\ ReadListed(p))

\* a call of CreateOrUpdateRecord that made both round trips: the read,
\* answered with a list, and then the update of a listed record
C7_Witness ==
    \E p \in Procs :
        /\ Finished(p, "CreateOrUpdateRecord")
        /\ ReadListed(p) /\ Len(Listed(p)) = 2
        /\ Len(rt[p]) = 2
        /\ rt[p][2].req.method = "PUT"
        /\ rt[p][2].resp.err = Nil

\* the list-zones request of p's call was answered 200 with a body that decodes
ZonesListed(p) ==
    /\ Len(rt[p]) = 1
    /\ rt[p][1].resp.err = Nil
    /\ rt[p][1].resp.StatusCode = 200
    /\ decodeZonesResponse(rt[p][1].resp.Body).err = Nil

ListedZones(p) == decodeZonesResponse(rt[p][1].resp.Body).v

\* C8: FindZoneID returns the id of the first zone, in list order, whose name
\* is the name asked for, compared without case; when no zone of the list
\* matches, it returns the not-found error and an empty id, although the
\* list-zones request succeeded.
C8_FindZoneIDFirstMatch ==
    \A p \in Procs :
        (Finished(p, "FindZoneID") /\ ZonesListed(p))
        => LET zones == ListedZones(p)
               hits == {i \in 1..Len(zones) : EqualFold(zones[i].Name, call[p].domainName)}
           IN IF hits = {}
              THEN /\ ret[p].err = [format |-> "zone for domain %s not found",
                                    domainName |-> call[p].domainName]
                   /\ ret[p].id = <<>>
              ELSE /\ ret[p].err = Nil
                   /\ \E i \in hits : /\ \A j \in hits : i <= j
                                      /\ ret[p].id = zones[i].ID

\* two zones match, with different ids; the first one, written in another
\* case than the name asked for, is returned
C8_Witness ==
    \E p \in Procs :
        /\ Finished(p, "FindZoneID") /\ ZonesListed(p)
        /\ Len(ListedZones(p)) = 2
        /\ \A i \in 1..2 : EqualFold(ListedZones(p)[i].Name, call[p].domainName)
        /\ ListedZones(p)[1].Name # call[p].domainName
        /\ ListedZones(p)[1].ID # ListedZones(p)[2].ID
        /\ ret[p].err = Nil /\ ret[p].id = ListedZones(p)[1].ID

\* the body of the response to the first round trip of p's call, if there is one
AnsweredBodies(p) ==
    IF Len(rt[p]) >= 1 /\ rt[p][1].resp.err = Nil THEN {rt[p][1].resp.Body} ELSE {}

\* p's call made one round trip, answered 200 with the JSON document body
AnsweredDocument(p, op, body) ==
    /\ Answered(p, op)
    /\ rt[p][1].resp.StatusCode = 200
    /\ rt[p][1].resp.Body = body
    /\ body.t \in {"object", "array", "null"}

\* the items of the list that the document holds under key
ItemsOf(body, key) ==
    IF body.t = "object" /\ key \in DOMAIN body.o /\ body.o[key].t = "array"
    THEN body.o[key].a ELSE <<>>

\* the document lacks the list, or an item of the list lacks one of the keys
LacksKey(body, key, keys) ==
    /\ body.t = "object"
    /\ \/ key \notin DOMAIN body.o
       \/ \E i \in 1..Len(ItemsOf(body, key)) :
             /\ ItemsOf(body, key)[i].t = "object"
             /\ \E k \in keys : k \notin DOMAIN ItemsOf(body, key)[i].o

ZoneKeys == {"id", "name"}
RecordKeys == {"id", "type", "name", "value", "zone_id"}

WellTyped(body, key, keys, numbers) ==
    \/ body.t = "null"
    \/ /\ body.t = "object"
       /\ key \in DOMAIN body.o => body.o[key].t \in {"array", "null"}
       /\ \A i \in 1..Len(ItemsOf(body, key)) :
             LET item == ItemsOf(body, key)[i]
             IN \/ item.t = "null"
                \/ /\ item.t = "object"
                   /\ \A k \in keys \cap DOMAIN item.o :
                         item.o[k].t \in {"string", "null"}
                   /\ \A k \in numbers \cap DOMAIN item.o :
                         item.o[k].t \in {"number", "null"}

\* the string that the item holds under key k, the empty string if it holds none
StringAt(item, k) ==
    IF item.t = "object" /\ k \in DOMAIN item.o /\ item.o[k].t = "string"
    THEN item.o[k].s ELSE <<>>

ReadError(p) ==
    IF rt[p] = <<>>
    THEN Errorf("failed to create request: %w", ErrUrlParse)
    ELSE IF rt[p][1].resp.err # Nil
    THEN Errorf("failed to execute request: %w", rt[p][1].resp.err)
    ELSE IF rt[p][1].resp.StatusCode # 200
    THEN createApiErrorMessage(rt[p][1].resp)
    ELSE Errorf("failed to decode response body: %w",
                decodeRecordsResponse(rt[p][1].resp.Body).err)

\* C10: when the read of CreateOrUpdateRecord fails (the transport fails, the
\* status is not 200 or the body does not decode), CreateOrUpdateRecord
\* returns the error of the read as it is, not wrapped, and issues no create
\* and no update.
C10_ReadFailureSurfaced ==
    \A p \in Procs :
        /\ (Finished(p, "CreateOrUpdateRecord") /\ ~ReadListed(p))
           => /\ ret[p].err = ReadError(p)
              /\ ret[p].err # Nil
              /\ Len(rt[p]) <= 1
              /\ Writes(p) = <<>>
        /\ (pc[p] = "write" /\ call[p].op = "CreateOrUpdateRecord") => ReadListed(p)

\* the read was answered 500: the call returned the API error of that
\* response after the one round trip
C10_Witness ==
    \E p \in Procs :
        /\ Finished(p, "CreateOrUpdateRecord")
        /\ Len(rt[p]) = 1
        /\ rt[p][1].resp.err = Nil
        /\ rt[p][1].resp.StatusCode = 500
        /\ rt[p][1].resp.Body = Text("internal error")
        /\ ret[p].err = [format |-> "API request failed with status %d: %s",
                         status |-> 500, body |-> Text("internal error")]

\* C11: one caller, calls following each other, against a remote API that
\* applies every write it accepts, from a zone in which no two records share
\* a name (letter case ignored): through CreateOrUpdateRecord, UpdateRecord
\* with the record's own name and DeleteRecord the zone never holds two
\* records of one name, and a CreateOrUpdateRecord call leaves every record
\* it found in the zone and adds at most one.
C11_NamesStayUnique ==
    /\ UniqueNames(records)
    /\ Finished(1, "CreateOrUpdateRecord")
       => /\ Len(records) - Len(prev[1].after) \in {0, 1}
          /\ \A i \in 1..Len(prev[1].after) :
                \E j \in 1..Len(records) : records[j].id = prev[1].after[i].id

\* after an UpdateRecord that kept a record's name, CreateOrUpdateRecord is
\* called with that name in another letter case and updates the record, in a
\* zone of two records
C11_Witness ==
    /\ Finished(1, "CreateOrUpdateRecord") /\ ret[1].err = Nil
    /\ prev[1].call.op = "UpdateRecord" /\ prev[1].ret.err = Nil
    /\ Len(rt[1]) = 2 /\ rt[1][2].req.method = "PUT"
    /\ call[1].recordName # prev[1].call.recordName
    /\ EqualFold(call[1].recordName, prev[1].call.recordName)
    /\ rt[1][2].req.url[3] = prev[1].call.recordID
    /\ Len(records) = 2

====
